---- MODULE Spec2Model ----
(***************************************************************************)
(* Model of src/src/components/DataAnalytics.js: the ProductAnalytics      *)
(* component, its one-shot fetch effect (fetchAnalytics), the              *)
(* classification of the performance array into the three lists and two   *)
(* counts, and the choice of view made by the render function.             *)
(***************************************************************************)
EXTENDS Integers, Sequences, FiniteSets

(* ----------------------------- constants ------------------------------ *)

\* .slice(0, 10): the cap of both ranked lists.
Cap == 10

\* product.total_units_sold > 20
SaleableThreshold == 20

\* product.total_units_sold < 3 && product.total_units_sold > 0
LowThreshold == 3

\* Milliseconds in a UTC day: toISOString().split('T')[0] keeps the day only.
MsPerDay == 86400000

\* Longest free tail of the performance arrays the data source returns.
MaxTail == 2

Null == "null"

FetchError == "Failed to fetch analytics data"

(* ------------------------------- inputs ------------------------------- *)

\* A latest_rating_date as it arrives in the JSON payload: absent (or null or
\* the empty string, all falsy), a string new Date() cannot parse, or a time
\* stamp, kept as the milliseconds since the epoch it denotes.
NoDate == [present |-> FALSE, valid |-> FALSE, ms |-> 0]

InvalidDate == [present |-> TRUE, valid |-> FALSE, ms |-> 0]

At(ms) == [present |-> TRUE, valid |-> TRUE, ms |-> ms]

DayOneStart == MsPerDay

DayOneEnd == 2 * MsPerDay - 1

DayTwoStart == 2 * MsPerDay

\* The values new Date() takes when the classification runs.
Nows == {DayOneEnd, DayTwoStart}

\* A total_units_sold as it arrives: absent, or a number.
NoUnits == [present |-> FALSE, n |-> 0]

Units(n) == [present |-> TRUE, n |-> n]

UnitsValues == {0, 1, 2, LowThreshold, SaleableThreshold, SaleableThreshold + 1, 25}

\* The shapes of one record of the performance array (without its id).
RecordKinds ==
    {[total_units_sold |-> Units(n), latest_rating_date |-> NoDate] : n \in UnitsValues}
    \cup {[total_units_sold |-> NoUnits, latest_rating_date |-> NoDate]}
    \cup {[total_units_sold |-> u, latest_rating_date |-> d] :
            u \in {NoUnits, Units(2), Units(25)},
            d \in {InvalidDate, At(DayOneStart), At(DayOneEnd), At(DayTwoStart)}}

\* A block of n saleable records rated on day one followed by n low performing
\* records without a rating: what makes a ranked list longer than the cap.
BulkSizes == {0, Cap - 1, Cap}

Bulk(n) ==
    [i \in 1..(2 * n) |->
        IF i <= n
        THEN [total_units_sold |-> Units(SaleableThreshold + 1),
              latest_rating_date |-> At(DayOneStart)]
        ELSE [total_units_sold |-> Units(1), latest_rating_date |-> NoDate]]

Tails == UNION {[1..k -> RecordKinds] : k \in 0..MaxTail}

\* The id is the unique key of a record: here its place in the array.
WithIds(s) ==
    [i \in 1..Len(s) |->
        [id |-> i,
         total_units_sold |-> s[i].total_units_sold,
         latest_rating_date |-> s[i].latest_rating_date]]

\* The performance arrays the data source returns.
PerformanceArrays == {WithIds(Bulk(n) \o t) : n \in BulkSizes, t \in Tails}

\* performanceData before performanceRes.json() has resolved.
Unparsed == [parsed |-> FALSE, hasPerformance |-> FALSE, performance |-> <<>>]

\* A parsed body without a performance array.
NoPerformance == [parsed |-> TRUE, hasPerformance |-> FALSE, performance |-> <<>>]

\* The parsed bodies of /api/product-performance: an object with a performance
\* array, or an object without one.
PerformanceBodies ==
    {[parsed |-> TRUE, hasPerformance |-> TRUE, performance |-> p] :
        p \in PerformanceArrays}
    \cup {NoPerformance}

(* ------------------------------- state -------------------------------- *)

VARIABLES
    analyticsData,    \* the useState object of the component
    mounted,          \* whether the component is mounted
    pc,               \* where fetchAnalytics stands
    analyticsRes,     \* fetch('/api/product-analytics')
    performanceRes,   \* fetch('/api/product-performance')
    performanceData,  \* the parsed body of performanceRes
    now,              \* the time read by new Date() at classification
    writes            \* the calls of setAnalyticsData so far, in order

vars == <<analyticsData, mounted, pc, analyticsRes, performanceRes,
          performanceData, now, writes>>

InitialData ==
    [topSaleableProducts |-> <<>>,
     nonSaleableProducts |-> <<>>,
     currentRatedProducts |-> <<>>,
     loading |-> TRUE,
     error |-> Null,
     saleableCount |-> 0,
     nonSaleableCount |-> 0]

Init ==
    /\ analyticsData = InitialData
    /\ mounted = TRUE
    /\ pc = "mount"
    /\ analyticsRes = "idle"
    /\ performanceRes = "idle"
    /\ performanceData = Unparsed
    /\ now = 0
    /\ writes = <<>>

(* --------------------------- classification --------------------------- *)

\* JavaScript's relational operators on a possibly missing number: undefined
\* converts to NaN and every comparison with NaN is false.
Gt(u, k) == u.present /\ u.n > k

Lt(u, k) == u.present /\ u.n < k

\* A lower bar for the saleable bucket: >= where the code has >.
IsSaleableAtThreshold(product) == product.total_units_sold.present
                                  /\ product.total_units_sold.n >= SaleableThreshold

IsSaleable(product) == Gt(product.total_units_sold, SaleableThreshold)

\* The low performing filter without its "> 0" conjunct.
IsNonSaleableWithZero(product) == Lt(product.total_units_sold, LowThreshold)

IsNonSaleable(product) ==
    Lt(product.total_units_sold, LowThreshold) /\ Gt(product.total_units_sold, 0)

\* (a, b) => b.total_units_sold - a.total_units_sold
Compare(a, b) == b.total_units_sold.n - a.total_units_sold.n

\* An insertion that puts x before the records it ties with.
InsertBeforeTies(t, x) ==
    LET p == Cardinality({i \in 1..Len(t) : Compare(t[i], x) < 0})
    IN  SubSeq(t, 1, p) \o <<x>> \o SubSeq(t, p + 1, Len(t))

\* One step of a stable sort: x goes after every record that does not have to
\* follow it (Compare <= 0), so after the records it ties with.
Insert(t, x) ==
    LET p == Cardinality({i \in 1..Len(t) : Compare(t[i], x) <= 0})
    IN  SubSeq(t, 1, p) \o <<x>> \o SubSeq(t, p + 1, Len(t))

\* Array.prototype.sort with Compare: stable (ECMAScript 2019).
RECURSIVE Sort(_)
Sort(s) ==
    IF s = <<>> THEN <<>>
    ELSE Insert(Sort(SubSeq(s, 1, Len(s) - 1)), s[Len(s)])

\* .slice(0, 10)
Slice(s) == SubSeq(s, 1, IF Len(s) < Cap THEN Len(s) ELSE Cap)

\* A count taken from the list after the cap.
LengthAfterCap(s) == Len(Slice(s))

\* saleableProducts.length, nonSaleableProducts.length
Length(s) == Len(s)

\* new Date(x).toISOString().split('T')[0]: the UTC calendar day of x.
IsoDay(ms) == ms \div MsPerDay

\* A rolling 24-hour window around the current time.
IsRatedWithinDay(product, t) ==
    /\ product.latest_rating_date.present
    /\ product.latest_rating_date.ms - t < MsPerDay
    /\ t - product.latest_rating_date.ms < MsPerDay

\* ratingDate === today, ratingDate being null for a falsy latest_rating_date.
IsRatedToday(product, t) ==
    /\ product.latest_rating_date.present
    /\ IsoDay(product.latest_rating_date.ms) = IsoDay(t)

\* What makes lines 45 to 59 throw: performanceData.performance is undefined
\* (TypeError), or toISOString() is called on an Invalid Date (RangeError).
Throws(body) ==
    \/ ~body.hasPerformance
    \/ \E i \in 1..Len(body.performance) :
          /\ body.performance[i].latest_rating_date.present
          /\ ~body.performance[i].latest_rating_date.valid

\* The object handed to setAnalyticsData on success.
Classify(performance, t) ==
    LET saleableProducts == Sort(SelectSeq(performance, IsSaleable))
        nonSaleableProducts == Sort(SelectSeq(performance, IsNonSaleable))
        rated(product) == IsRatedToday(product, t)
    IN  [topSaleableProducts |-> Slice(saleableProducts),
         nonSaleableProducts |-> Slice(nonSaleableProducts),
         currentRatedProducts |-> SelectSeq(performance, rated),
         loading |-> FALSE,
         error |-> Null,
         saleableCount |-> Length(saleableProducts),
         nonSaleableCount |-> Length(nonSaleableProducts)]

\* prev => ({...prev, loading: false, error: 'Failed to fetch analytics data'})
ErrorState(prev) == [prev EXCEPT !.loading = FALSE, !.error = FetchError]

\* A status check that lets one failed response through: && where the code has ||.
BothNotOk(a, p) == a # "ok" /\ p # "ok"

\* !analyticsRes.ok || !performanceRes.ok
NotOk(a, p) == a # "ok" \/ p # "ok"

(* -------------------------------- view -------------------------------- *)

\* A render function that tests for empty lists before it tests for an error.
ViewEmptyFirst(data) ==
    IF data.loading THEN "loading"
    ELSE IF /\ Len(data.topSaleableProducts) = 0
            /\ Len(data.nonSaleableProducts) = 0
            /\ Len(data.currentRatedProducts) = 0 THEN "nodata"
    ELSE IF data.error # Null THEN "error"
    ELSE "dashboard"

\* What the component returns for a state.
View(data) ==
    IF data.loading THEN "loading"
    ELSE IF data.error # Null THEN "error"
    ELSE IF /\ Len(data.topSaleableProducts) = 0
            /\ Len(data.nonSaleableProducts) = 0
            /\ Len(data.currentRatedProducts) = 0 THEN "nodata"
    ELSE "dashboard"

(* ------------------------------ actions ------------------------------- *)

\* An effect without its dependency array runs again after every render.
EffectPendingEveryRender == pc \in {"mount", "done"}

\* useEffect(..., []): the effect runs once, after the first render.
EffectPending == pc = "mount"

\* The effect calls fetchAnalytics, which issues both fetches and awaits
\* Promise.all.
RunEffect ==
    /\ mounted
    /\ EffectPending
    /\ analyticsRes' = "pending"
    /\ performanceRes' = "pending"
    /\ pc' = "awaitAll"
    /\ UNCHANGED <<analyticsData, mounted, performanceData, now, writes>>

\* A fetch settles: a response with a success status, a response with another
\* status, or a rejection (the network failed).
SettleAnalytics ==
    /\ analyticsRes = "pending"
    /\ \E outcome \in {"ok", "notok", "rejected"} : analyticsRes' = outcome
    /\ UNCHANGED <<analyticsData, mounted, pc, performanceRes, performanceData,
                   now, writes>>

SettlePerformance ==
    /\ performanceRes = "pending"
    /\ \E outcome \in {"ok", "notok", "rejected"} : performanceRes' = outcome
    /\ UNCHANGED <<analyticsData, mounted, pc, analyticsRes, performanceData,
                   now, writes>>

\* The catch block: one functional update of the state.
Catch ==
    /\ analyticsData' = ErrorState(analyticsData)
    /\ writes' = Append(writes, "error")
    /\ pc' = "done"

\* Promise.all rejects as soon as one fetch rejects.
AllRejected ==
    /\ pc = "awaitAll"
    /\ analyticsRes = "rejected" \/ performanceRes = "rejected"
    /\ Catch
    /\ UNCHANGED <<mounted, analyticsRes, performanceRes, performanceData, now>>

\* Promise.all fulfils when both fetches have: the status check follows.
AllFulfilled ==
    /\ pc = "awaitAll"
    /\ analyticsRes \in {"ok", "notok"}
    /\ performanceRes \in {"ok", "notok"}
    /\ IF NotOk(analyticsRes, performanceRes)
       THEN /\ Catch
            /\ UNCHANGED <<mounted, analyticsRes, performanceRes, performanceData, now>>
       ELSE /\ pc' = "awaitJsonA"
            /\ UNCHANGED <<analyticsData, mounted, analyticsRes, performanceRes,
                           performanceData, now, writes>>

\* await analyticsRes.json(): the body parses, and is not used.
JsonAnalytics ==
    /\ pc = "awaitJsonA"
    /\ pc' = "awaitJsonB"
    /\ UNCHANGED <<analyticsData, mounted, analyticsRes, performanceRes,
                   performanceData, now, writes>>

\* await analyticsRes.json() rejects: the body is not JSON.
JsonAnalyticsRejected ==
    /\ pc = "awaitJsonA"
    /\ Catch
    /\ UNCHANGED <<mounted, analyticsRes, performanceRes, performanceData, now>>

\* await performanceRes.json() rejects: the body is not JSON.
JsonPerformanceRejected ==
    /\ pc = "awaitJsonB"
    /\ Catch
    /\ UNCHANGED <<mounted, analyticsRes, performanceRes, performanceData, now>>

\* await performanceRes.json() resolves; lines 45 to 71 then run without a
\* break: the three filters, the sorts and the one call of setAnalyticsData, or
\* the catch block when one of them throws.
JsonPerformance ==
    /\ pc = "awaitJsonB"
    /\ \E body \in PerformanceBodies, t \in Nows :
          /\ performanceData' = body
          /\ IF Throws(body)
             THEN /\ Catch
                  /\ UNCHANGED now
             ELSE /\ now' = t
                  /\ analyticsData' = Classify(body.performance, t)
                  /\ writes' = Append(writes, "loaded")
                  /\ pc' = "done"
    /\ UNCHANGED <<mounted, analyticsRes, performanceRes>>

\* The component unmounts. The effect returns no cleanup function, so nothing
\* else changes: the fetches and fetchAnalytics go on.
Unmount ==
    /\ mounted
    /\ mounted' = FALSE
    /\ UNCHANGED <<analyticsData, pc, analyticsRes, performanceRes,
                   performanceData, now, writes>>

Next ==
    \/ RunEffect
    \/ SettleAnalytics
    \/ SettlePerformance
    \/ AllRejected
    \/ AllFulfilled
    \/ JsonAnalytics
    \/ JsonAnalyticsRejected
    \/ JsonPerformance
    \/ JsonPerformanceRejected
    \/ Unmount

Spec == Init /\ [][Next]_vars

(* ------------------------------- claims ------------------------------- *)

\* The classified result has been stored: the one call of setAnalyticsData was
\* the one of the try block.
Loaded == writes = <<"loaded">>

\* The performance array the classification ran on.
Input == performanceData.performance

Data == analyticsData

IdsOf(s) == {s[i].id : i \in 1..Len(s)}

\* C1: in every state, and so after every successful fetch, topSaleableProducts
\* has at most 10 records and each of them has total_units_sold > 20.
C1_TopSaleableCapped ==
    /\ Len(Data.topSaleableProducts) <= 10
    /\ \A i \in 1..Len(Data.topSaleableProducts) :
          /\ Data.topSaleableProducts[i].total_units_sold.present
          /\ Data.topSaleableProducts[i].total_units_sold.n > 20

\* The cap was hit: more than 10 saleable records, and one with exactly 20 units
\* sold, in the input.
C1_Witness ==
    /\ Loaded
    /\ Len(Data.topSaleableProducts) = 10
    /\ Data.saleableCount > 10
    /\ \E i \in 1..Len(Input) : Input[i].total_units_sold = Units(20)

\* C2: in every state nonSaleableProducts has at most 10 records and each of
\* them has 0 < total_units_sold < 3: a record with total_units_sold 0, or
\* without the field, is never in it.
C2_NonSaleableCapped ==
    /\ Len(Data.nonSaleableProducts) <= 10
    /\ \A i \in 1..Len(Data.nonSaleableProducts) :
          /\ Data.nonSaleableProducts[i].total_units_sold.present
          /\ Data.nonSaleableProducts[i].total_units_sold.n > 0
          /\ Data.nonSaleableProducts[i].total_units_sold.n < 3

\* A full low performing list from an input that also holds a record with 0
\* units sold and a record without the field.
C2_Witness ==
    /\ Loaded
    /\ Len(Data.nonSaleableProducts) = 10
    /\ \E i \in 1..Len(Input) : Input[i].total_units_sold = Units(0)
    /\ \E i \in 1..Len(Input) : ~Input[i].total_units_sold.present

SaleableIds ==
    {i \in 1..Len(Input) :
        Input[i].total_units_sold.present /\ Input[i].total_units_sold.n > 20}

NonSaleableIds ==
    {i \in 1..Len(Input) :
        /\ Input[i].total_units_sold.present
        /\ Input[i].total_units_sold.n > 0
        /\ Input[i].total_units_sold.n < 3}

\* C3: once the result is stored, saleableCount is the number of input records
\* with total_units_sold > 20 and nonSaleableCount the number with
\* 0 < total_units_sold < 3; each count is at least the length of its list,
\* and equal to it exactly when the filtered set has at most 10 records.
C3_CountsBeforeCap ==
    Loaded =>
        /\ Data.saleableCount = Cardinality(SaleableIds)
        /\ Data.nonSaleableCount = Cardinality(NonSaleableIds)
        /\ Data.saleableCount >= Len(Data.topSaleableProducts)
        /\ Data.nonSaleableCount >= Len(Data.nonSaleableProducts)
        /\ (Data.saleableCount = Len(Data.topSaleableProducts))
              <=> (Cardinality(SaleableIds) <= 10)
        /\ (Data.nonSaleableCount = Len(Data.nonSaleableProducts))
              <=> (Cardinality(NonSaleableIds) <= 10)

\* One count above its capped list, the other equal to its full list.
C3_Witness ==
    /\ Loaded
    /\ Data.saleableCount = 12
    /\ Len(Data.topSaleableProducts) = 10
    /\ Data.nonSaleableCount = 10
    /\ Len(Data.nonSaleableProducts) = 10

\* out is the first 10 records of the records of Input with ids in `ids`, in
\* descending order of total_units_sold, ties in input order.
IsTopOf(out, ids) ==
    /\ Len(out) = (IF Cardinality(ids) < 10 THEN Cardinality(ids) ELSE 10)
    /\ \A i \in 1..Len(out) : out[i].id \in ids /\ out[i] = Input[out[i].id]
    /\ \A i, j \in 1..Len(out) :
          i < j =>
            \/ out[i].total_units_sold.n > out[j].total_units_sold.n
            \/ /\ out[i].total_units_sold.n = out[j].total_units_sold.n
               /\ out[i].id < out[j].id
    /\ \A k \in ids \ IdsOf(out) :
          \A i \in 1..Len(out) :
            \/ out[i].total_units_sold.n > Input[k].total_units_sold.n
            \/ /\ out[i].total_units_sold.n = Input[k].total_units_sold.n
               /\ out[i].id < k

\* C4: once the result is stored, topSaleableProducts is the first 10 records
\* of the saleable records in descending total_units_sold order, records with
\* equal total_units_sold keeping their input order; the same holds for
\* nonSaleableProducts.
C4_SortedDescendingStable ==
    Loaded =>
        /\ IsTopOf(Data.topSaleableProducts, SaleableIds)
        /\ IsTopOf(Data.nonSaleableProducts, NonSaleableIds)

\* A list that was reordered, holds a tie, and lost a tied record to the cap.
C4_Witness ==
    /\ Loaded
    /\ Data.saleableCount > 10
    /\ \E i, j \in 1..Len(Data.topSaleableProducts) :
          /\ i < j
          /\ Data.topSaleableProducts[i].id > Data.topSaleableProducts[j].id
    /\ \E i, j \in 1..Len(Data.topSaleableProducts) :
          /\ i < j
          /\ Data.topSaleableProducts[i].total_units_sold
                = Data.topSaleableProducts[j].total_units_sold
    /\ \E i, j \in 1..Len(Data.nonSaleableProducts) :
          /\ i < j
          /\ Data.nonSaleableProducts[i].id > Data.nonSaleableProducts[j].id

\* The first millisecond of the UTC day of the current time.
TodayStart == now - (now % 86400000)

RatedTodayIds ==
    {i \in 1..Len(Input) :
        /\ Input[i].latest_rating_date.present
        /\ Input[i].latest_rating_date.ms >= TodayStart
        /\ Input[i].latest_rating_date.ms < TodayStart + 86400000}

\* C5: once the result is stored, currentRatedProducts holds exactly the input
\* records that have a latest_rating_date on the UTC calendar day of the
\* current time, each once and in input order: no record without a date, no
\* cap, whatever the record's total_units_sold.
C5_RatedTodayExact ==
    Loaded =>
        /\ IdsOf(Data.currentRatedProducts) = RatedTodayIds
        /\ Len(Data.currentRatedProducts) = Cardinality(RatedTodayIds)
        /\ \A i \in 1..Len(Data.currentRatedProducts) :
              Data.currentRatedProducts[i] = Input[Data.currentRatedProducts[i].id]
        /\ \A i, j \in 1..Len(Data.currentRatedProducts) :
              i < j => Data.currentRatedProducts[i].id < Data.currentRatedProducts[j].id

\* More than 10 rated today, one of them saleable and one in neither bucket,
\* and a record rated less than 24 hours from now, on another day, left out.
C5_Witness ==
    /\ Loaded
    /\ Len(Data.currentRatedProducts) > 10
    /\ \E i \in RatedTodayIds : i \in SaleableIds
    /\ \E i \in RatedTodayIds : ~Input[i].total_units_sold.present
    /\ \E i \in 1..Len(Input) :
          /\ i \notin RatedTodayIds
          /\ Input[i].latest_rating_date.present
          /\ Input[i].latest_rating_date.ms - now < 86400000
          /\ now - Input[i].latest_rating_date.ms < 86400000

FetchFailed ==
    \/ analyticsRes \in {"notok", "rejected"}
    \/ performanceRes \in {"notok", "rejected"}

\* C6: when either fetch rejected or returned a non-success status, no
\* classification runs and no data is stored: the lists stay empty and the
\* counts 0, and once fetchAnalytics is done the state is the error state with
\* the message 'Failed to fetch analytics data', written once.
C6_FetchFailureIsErrorState ==
    FetchFailed =>
        /\ ~performanceData.parsed
        /\ Data.topSaleableProducts = <<>>
        /\ Data.nonSaleableProducts = <<>>
        /\ Data.currentRatedProducts = <<>>
        /\ Data.saleableCount = 0
        /\ Data.nonSaleableCount = 0
        /\ pc \in {"awaitAll", "done"}
        /\ pc = "done" =>
              /\ writes = <<"error">>
              /\ ~Data.loading
              /\ Data.error = "Failed to fetch analytics data"

\* The performance fetch returned a non-success status after the analytics
\* fetch had succeeded, and fetchAnalytics is done.
C6_Witness ==
    /\ pc = "done"
    /\ analyticsRes = "ok"
    /\ performanceRes = "notok"

\* C7: when both fetches succeeded and both bodies were parsed, the component
\* ends in the loaded state with error = null, whatever the records are.
C7_ClassificationNeverFails ==
    (pc = "done" /\ performanceData.parsed) =>
        /\ Data.error = Null
        /\ ~Data.loading
        /\ Loaded

\* C8: after the unmount setAnalyticsData is not called, neither with the
\* classified result nor with the error state.
C8_NoWriteAfterUnmount == [][~mounted => writes' = writes]_vars

AllEmpty ==
    /\ Data.topSaleableProducts = <<>>
    /\ Data.nonSaleableProducts = <<>>
    /\ Data.currentRatedProducts = <<>>

\* C9: the no-data view is shown exactly when loading is false, error is null
\* and the three lists are empty, never after the catch block ran; an empty
\* performance array with both fetches successful gives empty lists, counts 0
\* and error = null, and so the no-data view.
C9_EmptyIsNoDataNotError ==
    /\ (View(Data) = "nodata") <=> (~Data.loading /\ Data.error = Null /\ AllEmpty)
    /\ writes = <<"error">> => View(Data) = "error"
    /\ (Loaded /\ performanceData.hasPerformance /\ Input = <<>>) =>
          /\ AllEmpty
          /\ Data.saleableCount = 0
          /\ Data.nonSaleableCount = 0
          /\ Data.error = Null
          /\ View(Data) = "nodata"

\* An empty performance array was classified.
C9_Witness ==
    /\ Loaded
    /\ performanceData.hasPerformance
    /\ Input = <<>>
    /\ View(Data) = "nodata"

\* C10: setAnalyticsData is called at most once, and exactly once by the time
\* fetchAnalytics is done, leaving either the loaded state (error = null) or
\* the error state; until then the state is the loading state. Once loading is
\* false it stays false and error does not change, and a fetch that was issued
\* is never issued again.
C10_OneShotTerminal ==
    /\ [](Len(writes) <= 1)
    /\ [](pc = "done" =>
            /\ Len(writes) = 1
            /\ ~Data.loading
            /\ (Data.error = Null) <=> Loaded
            /\ (Data.error # Null) <=> (writes = <<"error">>))
    /\ [](pc # "done" => Data = InitialData /\ writes = <<>>)
    /\ [][~Data.loading => (~Data.loading' /\ Data.error' = Data.error)]_vars
    /\ [][analyticsRes' = "pending" => analyticsRes \in {"idle", "pending"}]_vars
    /\ [][performanceRes' = "pending" => performanceRes \in {"idle", "pending"}]_vars

\* fetchAnalytics ended in the error state and the component is still mounted.
C10_Witness ==
    /\ pc = "done"
    /\ mounted
    /\ writes = <<"error">>
    /\ analyticsRes = "rejected"
    /\ performanceRes = "pending"

====
